---- MODULE Spec2Model ----
(***************************************************************************)
(* label-pdf-processor.js: extraction of an order number and a tracking    *)
(* number from the OCR text of a shipping label, and the batch loop that   *)
(* drives the fulfillment update.                                          *)
(*                                                                         *)
(* A JavaScript string is a sequence of characters; a character is a       *)
(* one-character TLA+ string, except the two dash glyphs, written          *)
(* "EMDASH" (U+2014) and "ENDASH" (U+2013).                                *)
(***************************************************************************)
EXTENDS Integers, Sequences, FiniteSets, TLC

----------------------------------------------------------------------------
(* Characters and the character classes of JavaScript regular expressions  *)

EmDash == "EMDASH"
EnDash == "ENDASH"

Digit == {"0", "1", "2", "3", "4", "5", "6", "7", "8", "9"}

LowerLetters ==
    <<"a", "b", "c", "d", "e", "f", "g", "h", "i", "j", "k", "l", "m",
      "n", "o", "p", "q", "r", "s", "t", "u", "v", "w", "x", "y", "z">>

UpperLetters ==
    <<"A", "B", "C", "D", "E", "F", "G", "H", "I", "J", "K", "L", "M",
      "N", "O", "P", "Q", "R", "S", "T", "U", "V", "W", "X", "Y", "Z">>

Range(f) == {f[k] : k \in DOMAIN f}

\* toUpperCase and toLowerCase of the letters
UpperOf ==
    [c \in Range(LowerLetters) |->
        UpperLetters[CHOOSE k \in DOMAIN LowerLetters : LowerLetters[k] = c]]
LowerOf ==
    [c \in Range(UpperLetters) |->
        LowerLetters[CHOOSE k \in DOMAIN UpperLetters : UpperLetters[k] = c]]

\* \w of a regular expression without the u flag: [A-Za-z0-9_]
WordChar == Digit \cup Range(LowerLetters) \cup Range(UpperLetters) \cup {"_"}

\* \s of a regular expression (the white space an OCR text holds)
Space == {" ", "\t", "\n"}

\* String.prototype.toUpperCase on one character
UpperChar(c) == IF c \in DOMAIN UpperOf THEN UpperOf[c] ELSE c
LowerChar(c) == IF c \in DOMAIN LowerOf THEN LowerOf[c] ELSE c

toUpperCase(s) == [k \in DOMAIN s |-> UpperChar(s[k])]
toLowerCase(s) == [k \in DOMAIN s |-> LowerChar(s[k])]

----------------------------------------------------------------------------
(* Regular expressions as syntax trees, matched as a backtracking engine   *)
(* does: Ends(r, ci, s, i) is the list of positions where a match of r     *)
(* that starts at position i of s can end, in the order in which the       *)
(* engine tries them (greedy quantifiers first the longest, alternatives   *)
(* left to right). Positions count the characters before them: 0..Len(s).  *)

Chr(set) == [t |-> "chr", cs |-> set, rs |-> <<>>, min |-> 0, max |-> 0]
Cat(rs) == [t |-> "cat", cs |-> {}, rs |-> rs, min |-> 0, max |-> 0]
Alt(rs) == [t |-> "alt", cs |-> {}, rs |-> rs, min |-> 0, max |-> 0]
\* r{min,max}, greedy; max = -1 is no upper limit
Rep(r, min, max) == [t |-> "rep", cs |-> {}, rs |-> <<r>>, min |-> min, max |-> max]
WB == [t |-> "wb", cs |-> {}, rs |-> <<>>, min |-> 0, max |-> 0]
BOL == [t |-> "bol", cs |-> {}, rs |-> <<>>, min |-> 0, max |-> 0]
EOL == [t |-> "eol", cs |-> {}, rs |-> <<>>, min |-> 0, max |-> 0]
Empty == Cat(<<>>)

Star(r) == Rep(r, 0, -1)
Plus(r) == Rep(r, 1, -1)
Opt(r) == Rep(r, 0, 1)
Times(r, n) == Rep(r, n, n)
\* a literal string
Lit(str) == Cat([k \in DOMAIN str |-> Chr({str[k]})])

\* \d and \s
D == Chr(Digit)
S == Chr(Space)

\* whether character c is in the class cs; with the i flag both sides are
\* compared in upper case
InClass(c, cs, ci) ==
    IF ci THEN \E x \in cs : UpperChar(x) = UpperChar(c) ELSE c \in cs

IsWordAt(s, k) == k >= 1 /\ k <= Len(s) /\ s[k] \in WordChar

RECURSIVE Ends(_, _, _, _)
RECURSIVE EndsFromAll(_, _, _, _)
RECURSIVE CatEnds(_, _, _, _, _)
RECURSIVE AltEnds(_, _, _, _, _)
RECURSIVE RepEnds(_, _, _, _, _)
RECURSIVE RepFromAll(_, _, _, _, _)

\* the ends of r from each of the positions `starts`, in order
EndsFromAll(r, ci, s, starts) ==
    IF starts = <<>> THEN <<>>
    ELSE Ends(r, ci, s, Head(starts)) \o EndsFromAll(r, ci, s, Tail(starts))

\* rs[k], rs[k+1], ... one after the other, from each of `starts`
CatEnds(rs, k, ci, s, starts) ==
    IF k > Len(rs) \/ starts = <<>> THEN starts
    ELSE CatEnds(rs, k + 1, ci, s, EndsFromAll(rs[k], ci, s, starts))

\* rs[k] | rs[k+1] | ...
AltEnds(rs, k, ci, s, i) ==
    IF k > Len(rs) THEN <<>>
    ELSE Ends(rs[k], ci, s, i) \o AltEnds(rs, k + 1, ci, s, i)

\* n iterations of the quantified r are done and the match stands at i:
\* one more iteration first (greedy), then stopping here
RepEnds(r, ci, s, i, n) ==
    LET body == r.rs[1]
        more == IF r.max = -1 \/ n < r.max
                THEN RepFromAll(r, ci, s,
                                SelectSeq(Ends(body, ci, s, i), LAMBDA e : e > i),
                                n + 1)
                ELSE <<>>
    IN  more \o (IF n >= r.min THEN <<i>> ELSE <<>>)

RepFromAll(r, ci, s, starts, n) ==
    IF starts = <<>> THEN <<>>
    ELSE RepEnds(r, ci, s, Head(starts), n) \o RepFromAll(r, ci, s, Tail(starts), n)

Ends(r, ci, s, i) ==
    CASE r.t = "chr" ->
            IF i < Len(s) /\ InClass(s[i + 1], r.cs, ci) THEN <<i + 1>> ELSE <<>>
      [] r.t = "cat" -> CatEnds(r.rs, 1, ci, s, <<i>>)
      [] r.t = "alt" -> AltEnds(r.rs, 1, ci, s, i)
      [] r.t = "rep" -> RepEnds(r, ci, s, i, 0)
      [] r.t = "wb" ->
            IF IsWordAt(s, i) # IsWordAt(s, i + 1) THEN <<i>> ELSE <<>>
      [] r.t = "bol" -> IF i = 0 THEN <<i>> ELSE <<>>
      [] r.t = "eol" -> IF i = Len(s) THEN <<i>> ELSE <<>>

----------------------------------------------------------------------------
(* String.prototype.match with a regular expression without the g flag:    *)
(* the leftmost start at which the expression matches, and there the first *)
(* match in the engine's order. A pattern is (pre)(grp)(post) with one     *)
(* capturing group grp; ci is the i flag.                                  *)

Pattern(pre, grp, post, ci) == [pre |-> pre, grp |-> grp, post |-> post, ci |-> ci]

NoMatch == [found |-> FALSE, from |-> 0, gs |-> 0, ge |-> 0, to |-> 0]

RECURSIVE FirstGroupEnd(_, _, _, _, _)
\* the first of the group ends `ges` after which post matches
FirstGroupEnd(p, s, from, gs, ges) ==
    IF ges = <<>> THEN NoMatch
    ELSE LET tos == Ends(p.post, p.ci, s, Head(ges))
         IN  IF tos # <<>>
             THEN [found |-> TRUE, from |-> from, gs |-> gs, ge |-> Head(ges),
                   to |-> Head(tos)]
             ELSE FirstGroupEnd(p, s, from, gs, Tail(ges))

RECURSIVE FirstGroupStart(_, _, _, _)
\* the first of the group starts `gss` from which grp and post match
FirstGroupStart(p, s, from, gss) ==
    IF gss = <<>> THEN NoMatch
    ELSE LET m == FirstGroupEnd(p, s, from, Head(gss),
                                Ends(p.grp, p.ci, s, Head(gss)))
         IN  IF m.found THEN m ELSE FirstGroupStart(p, s, from, Tail(gss))

RECURSIVE MatchFrom(_, _, _)
MatchFrom(p, s, from) ==
    IF from > Len(s) THEN NoMatch
    ELSE LET m == FirstGroupStart(p, s, from, Ends(p.pre, p.ci, s, from))
         IN  IF m.found THEN m ELSE MatchFrom(p, s, from + 1)

\* s.match(p): NoMatch for null
Match(p, s) == MatchFrom(p, s, 0)

\* match[1] || match[0]
Captured(m, s) ==
    IF m.ge > m.gs THEN SubSeq(s, m.gs + 1, m.ge) ELSE SubSeq(s, m.from + 1, m.to)

\* RegExp.prototype.test
Test(r, ci, s) == Match(Pattern(Empty, r, Empty, ci), s).found

----------------------------------------------------------------------------
(* extractOrderNumber                                                      *)

\* only the em dash replaced
NormalizeEmDashOnly(s) == [k \in DOMAIN s |-> IF s[k] = EmDash THEN "-" ELSE s[k]]

\* text.replace(/[EMDASH ENDASH]/g, '-')
NormalizeDashes(s) ==
    [k \in DOMAIN s |-> IF s[k] \in {EmDash, EnDash} THEN "-" ELSE s[k]]

longPrefixes == << <<"E", "J", "R">>, <<"E", "J", "C">>, <<"M", "H">> >>
shortPrefixes == << <<"R">>, <<"A", "L">> >>

PrefixAlt(prefixes) == Alt([k \in DOMAIN prefixes |-> Lit(prefixes[k])])
longPrefixPattern == PrefixAlt(longPrefixes)
shortPrefixPattern == PrefixAlt(shortPrefixes)

Hyphen == Chr({"-"})
EL == Lit(<<"E", "L">>)
\* (?:-\d)?
OptSuffix == Opt(Cat(<<Hyphen, D>>))
\* \s*-\s*\d
SpacedSuffix == Cat(<<Star(S), Hyphen, Star(S), D>>)
\* \s*-?\s*\d?
LooseSuffix == Cat(<<Star(S), Opt(Hyphen), Star(S), Opt(D)>>)
\* EL\d{6}EL
ELRoot == Cat(<<EL, Times(D, 6), EL>>)
\* (?:^|\s|#)
Standalone == Alt(<<BOL, S, Chr({"#"})>>)
\* (?:Order\s*#?\s*|Order\s*Number\s*[:"']?\s*)
OrderLabel ==
    Alt(<<Cat(<<Lit(<<"O", "r", "d", "e", "r">>), Star(S), Opt(Chr({"#"})), Star(S)>>),
          Cat(<<Lit(<<"O", "r", "d", "e", "r">>), Star(S),
                Lit(<<"N", "u", "m", "b", "e", "r">>), Star(S),
                Opt(Chr({":", "\"", "'"})), Star(S)>>)>>)
\* #\s*
HashLabel == Cat(<<Chr({"#"}), Star(S)>>)

\* /\b(\d{9}(?:\s*[EMDASH ENDASH -]\s*\d)+)\b/
pNineSegments ==
    Pattern(WB, Cat(<<Times(D, 9),
                      Plus(Cat(<<Star(S), Chr({EmDash, EnDash, "-"}), Star(S), D>>))>>),
            WB, FALSE)
\* /\b(2\d{9}(?:-\d)?)\b/
pTwoNine == Pattern(WB, Cat(<<Chr({"2"}), Times(D, 9), OptSuffix>>), WB, FALSE)
\* /\b(EL\d{6}EL(?:-\d)?)\b/i
pEL == Pattern(WB, Cat(<<ELRoot, OptSuffix>>), WB, TRUE)
\* \b((?:R|AL)\d{4}(?:-\d)?)\b  i
pShort == Pattern(WB, Cat(<<shortPrefixPattern, Times(D, 4), OptSuffix>>), WB, TRUE)
\* \b((?:EJR|EJC|MH)\d{6}(?:-\d)?)\b  i
pLong == Pattern(WB, Cat(<<longPrefixPattern, Times(D, 6), OptSuffix>>), WB, TRUE)
\* /\b(\d{9}\s*-\s*\d)\b/
pNineSpaced == Pattern(WB, Cat(<<Times(D, 9), SpacedSuffix>>), WB, FALSE)
\* /\b(\d{9}(?:-\d)?)\b/
pNine == Pattern(WB, Cat(<<Times(D, 9), OptSuffix>>), WB, FALSE)
\* /\b(\d{6}\s*-\s*\d)\b/
pSixSpaced == Pattern(WB, Cat(<<Times(D, 6), SpacedSuffix>>), WB, FALSE)
\* /\b(\d{6}-\d)\b/
pSix == Pattern(WB, Cat(<<Times(D, 6), Hyphen, D>>), WB, FALSE)
\* /(?:^|\s|#)(EL\d{6}EL(?:-\d)?)/i
pStandaloneEL == Pattern(Standalone, Cat(<<ELRoot, OptSuffix>>), Empty, TRUE)
\* (?:^|\s|#)((?:R|AL)\d{4}(?:-\d)?)  i
pStandaloneShort ==
    Pattern(Standalone, Cat(<<shortPrefixPattern, Times(D, 4), OptSuffix>>), Empty, TRUE)
\* (?:^|\s|#)((?:EJR|EJC|MH)\d{6}(?:-\d)?)  i
pStandaloneLong ==
    Pattern(Standalone, Cat(<<longPrefixPattern, Times(D, 6), OptSuffix>>), Empty, TRUE)
\* label((?:(?:EJR|EJC|MH))?\d{6,9}\s*-?\s*\d?)  i
pLabelLong ==
    Pattern(OrderLabel, Cat(<<Opt(longPrefixPattern), Rep(D, 6, 9), LooseSuffix>>),
            Empty, TRUE)
\* label((?:(?:R|AL))?\d{4}\s*-?\s*\d?)  i
pLabelShort ==
    Pattern(OrderLabel, Cat(<<Opt(shortPrefixPattern), Times(D, 4), LooseSuffix>>),
            Empty, TRUE)
\* label(EL\d{6}EL\s*-?\s*\d?)  i
pLabelEL == Pattern(OrderLabel, Cat(<<ELRoot, LooseSuffix>>), Empty, TRUE)
\* #\s*((?:(?:EJR|EJC|MH)|(?:R|AL))?\d{4,9}\s*-?\s*\d?)  i
pHash ==
    Pattern(HashLabel,
            Cat(<<Opt(Alt(<<longPrefixPattern, shortPrefixPattern>>)), Rep(D, 4, 9),
                  LooseSuffix>>),
            Empty, TRUE)
\* /#\s*(EL\d{6}EL\s*-?\s*\d?)/i
pHashEL == Pattern(HashLabel, Cat(<<ELRoot, LooseSuffix>>), Empty, TRUE)

\* the list with the bare 6-digit patterns moved to its head
patternsSixFirst ==
    <<pSixSpaced, pSix, pNineSegments, pTwoNine, pEL, pShort, pLong, pNineSpaced, pNine,
      pStandaloneEL, pStandaloneShort, pStandaloneLong,
      pLabelLong, pLabelShort, pLabelEL, pHash, pHashEL>>

patterns ==
    <<pNineSegments, pTwoNine, pEL, pShort, pLong, pNineSpaced, pNine, pSixSpaced, pSix,
      pStandaloneEL, pStandaloneShort, pStandaloneLong,
      pLabelLong, pLabelShort, pLabelEL, pHash, pHashEL>>

\* String.prototype.trim
RECURSIVE TrimLeft(_)
TrimLeft(s) == IF s # <<>> /\ Head(s) \in Space THEN TrimLeft(Tail(s)) ELSE s
RECURSIVE TrimRight(_)
TrimRight(s) ==
    IF s # <<>> /\ s[Len(s)] \in Space THEN TrimRight(SubSeq(s, 1, Len(s) - 1)) ELSE s
Trim(s) == TrimRight(TrimLeft(s))

\* .replace(/\s+/g, '')
RemoveSpaces(s) == SelectSeq(s, LAMBDA c : c \notin Space)

\* .trim().replace(/\s+/g, '').replace(/[EMDASH ENDASH]/g, '-')
CleanUp(s) == NormalizeDashes(RemoveSpaces(Trim(s)))

startsWith(s, pre) == Len(s) >= Len(pre) /\ SubSeq(s, 1, Len(pre)) = pre
includes(s, sub) ==
    \E k \in 0..(Len(s) - Len(sub)) : SubSeq(s, k + 1, k + Len(sub)) = sub
slice(s, n) == SubSeq(s, n + 1, Len(s))

\* .replace(/el/i, 'EL'): without the g flag, the first occurrence only
RECURSIVE ReplaceFirstEL(_)
ReplaceFirstEL(s) ==
    IF Len(s) < 2 THEN s
    ELSE IF toUpperCase(SubSeq(s, 1, 2)) = <<"E", "L">>
         THEN <<"E", "L">> \o SubSeq(s, 3, Len(s))
         ELSE <<Head(s)>> \o ReplaceFirstEL(Tail(s))

\* .replace(/el/gi, 'EL'): every occurrence, left to right
RECURSIVE ReplaceEL(_)
ReplaceEL(s) ==
    IF Len(s) < 2 THEN s
    ELSE IF toUpperCase(SubSeq(s, 1, 2)) = <<"E", "L">>
         THEN <<"E", "L">> \o ReplaceEL(slice(s, 2))
         ELSE <<Head(s)>> \o ReplaceEL(Tail(s))

\* for (const prefix of [...longPrefixes, ...shortPrefixes]) ... break
RECURSIVE NormalizePrefixFrom(_, _, _)
NormalizePrefixFrom(s, prefixes, k) ==
    IF k > Len(prefixes) THEN s
    ELSE IF startsWith(toUpperCase(s), toUpperCase(prefixes[k]))
         THEN prefixes[k] \o slice(s, Len(prefixes[k]))
         ELSE NormalizePrefixFrom(s, prefixes, k + 1)

\* the letter case left as matched
KeepCase(s) == s

\* the special handling of the EL format, else the other prefixes
NormalizeCase(s) ==
    IF startsWith(toUpperCase(s), <<"E", "L">>)
       /\ includes(toUpperCase(s), <<"E", "L", "-">>)
    THEN ReplaceEL(s)
    ELSE NormalizePrefixFrom(s, longPrefixes \o shortPrefixes, 1)

\* (?:-\d)+$
Suffixes == Cat(<<Plus(Cat(<<Hyphen, D>>)), EOL>>)

\* the validator with the suffix of the patterns, (?:-\d)?$
isValidFormatOptionalSuffix(s) ==
    \/ Test(Cat(<<BOL, Chr({"2"}), Times(D, 9), OptSuffix, EOL>>), FALSE, s)
    \/ Test(Cat(<<BOL, ELRoot, OptSuffix, EOL>>), TRUE, s)
    \/ \E k \in DOMAIN shortPrefixes :
          Test(Cat(<<BOL, Lit(shortPrefixes[k]), Times(D, 4), OptSuffix, EOL>>), TRUE, s)
    \/ \E k \in DOMAIN longPrefixes :
          Test(Cat(<<BOL, Lit(longPrefixes[k]), Times(D, 6), OptSuffix, EOL>>), TRUE, s)
    \/ Test(Cat(<<BOL, Times(D, 9), OptSuffix, EOL>>), FALSE, s)
    \/ Test(Cat(<<BOL, Times(D, 6), OptSuffix, EOL>>), FALSE, s)

isValidFormat(s) ==
    \/ Test(Cat(<<BOL, Chr({"2"}), Times(D, 9), Suffixes>>), FALSE, s)
    \/ Test(Cat(<<BOL, ELRoot, Suffixes>>), TRUE, s)
    \/ \E k \in DOMAIN shortPrefixes :
          Test(Cat(<<BOL, Lit(shortPrefixes[k]), Times(D, 4), Suffixes>>), TRUE, s)
    \/ \E k \in DOMAIN longPrefixes :
          Test(Cat(<<BOL, Lit(longPrefixes[k]), Times(D, 6), Suffixes>>), TRUE, s)
    \/ Test(Cat(<<BOL, Times(D, 9), Suffixes>>), FALSE, s)
    \/ Test(Cat(<<BOL, Times(D, 6), Suffixes>>), FALSE, s)

\* one pass of the loop body for patterns[k] on the normalized text:
\* whether it matched, the cleaned capture, and whether that is valid
TryPattern(k, normalizedText) ==
    LET m == Match(patterns[k], normalizedText)
        found == IF m.found THEN NormalizeCase(CleanUp(Captured(m, normalizedText)))
                 ELSE <<>>
    IN  [matched |-> m.found, foundOrderNumber |-> found,
         valid |-> m.found /\ isValidFormat(found)]

null == <<"null">>

\* the loop from patterns[k] on: the first valid cleaned capture, or null
RECURSIVE CascadeFrom(_, _)
CascadeFrom(k, normalizedText) ==
    IF k > Len(patterns) THEN null
    ELSE LET t == TryPattern(k, normalizedText)
         IN  IF t.valid THEN t.foundOrderNumber ELSE CascadeFrom(k + 1, normalizedText)

extractOrderNumber(text) == CascadeFrom(1, NormalizeDashes(text))

----------------------------------------------------------------------------
(* extractTrackingNumber                                                   *)

\* the pattern without its last group of two digits
trackingPatternFourGroups ==
    Pattern(WB,
            Cat(<<Lit(<<"9", "2", "0", "5">>),
                  Star(S), Times(D, 4), Star(S), Times(D, 4),
                  Star(S), Times(D, 4), Star(S), Times(D, 4)>>),
            WB, FALSE)

\* /\b(9205\s*\d{4}\s*\d{4}\s*\d{4}\s*\d{4}\s*\d{2})\b/
trackingPattern ==
    Pattern(WB,
            Cat(<<Lit(<<"9", "2", "0", "5">>),
                  Star(S), Times(D, 4), Star(S), Times(D, 4),
                  Star(S), Times(D, 4), Star(S), Times(D, 4),
                  Star(S), Times(D, 2)>>),
            WB, FALSE)

\* path.basename(path, ext): the last component of the path, without the
\* extension ext when it ends with it (a path that is the extension alone
\* gives the empty string, a last component that is the extension alone is
\* kept)
RECURSIVE LastComponent(_)
LastComponent(path) ==
    IF \E k \in DOMAIN path : path[k] = "/"
    THEN LastComponent(Tail(path))
    ELSE path

endsWith(s, suf) ==
    Len(s) >= Len(suf) /\ SubSeq(s, Len(s) - Len(suf) + 1, Len(s)) = suf

basename(path, ext) ==
    LET base == LastComponent(path)
    IN  IF ext # <<>> /\ path = ext THEN <<>>
        ELSE IF ext # <<>> /\ endsWith(base, ext) /\ base # ext
             THEN SubSeq(base, 1, Len(base) - Len(ext))
             ELSE base

DotPdf == <<".", "p", "d", "f">>

\* /^\d{20,22}$/
fileNamePattern == Cat(<<BOL, Rep(D, 20, 22), EOL>>)

\* the tracking number found in the text: null when the pattern does not match
TrackingInText(pdfText) ==
    LET m == Match(trackingPattern, pdfText)
    IN  IF m.found THEN RemoveSpaces(Captured(m, pdfText)) ELSE null

\* path.basename(fileName): the extension kept
TrackingInFileNameWithExtension(fileName) ==
    IF Test(fileNamePattern, FALSE, basename(fileName, <<>>))
    THEN basename(fileName, <<>>)
    ELSE null

\* the tracking number the file name gives: null when it is not 20-22 digits
TrackingInFileName(fileName) ==
    IF Test(fileNamePattern, FALSE, basename(fileName, DotPdf))
    THEN basename(fileName, DotPdf)
    ELSE null

extractTrackingNumber(fileName, pdfText) ==
    IF TrackingInText(pdfText) # null THEN TrackingInText(pdfText)
    ELSE TrackingInFileName(fileName)

----------------------------------------------------------------------------
(* The texts and file names the functions are applied to                   *)

\* the digit runs start at the digits 1..MaxSeed
MaxSeed == 2
\* white space around a dash and between the groups of a tracking number is
\* 0..MaxGap characters long
MaxGap == 1
\* a directory holds at most MaxFiles entries
MaxFiles == 2

DigitChars == <<"0", "1", "2", "3", "4", "5", "6", "7", "8", "9">>

\* n digits: d, d+1, ... (mod 10)
Run(n, d) == [k \in 1..n |-> DigitChars[((d + k - 1) % 10) + 1]]

Gap(n) == [k \in 1..n |-> " "]

\* every spelling of str in upper and lower case letters
CaseVariants(str) ==
    {[k \in DOMAIN str |-> IF up[k] THEN UpperChar(str[k]) ELSE LowerChar(str[k])] :
        up \in [DOMAIN str -> BOOLEAN]}

\* the canonical order numbers of the six families, with one -digit suffix
CanonicalRoots ==
    UNION {
        {lp \o Run(6, d) : lp \in Range(longPrefixes), d \in 1..MaxSeed},
        {sp \o Run(4, d) : sp \in Range(shortPrefixes), d \in 1..MaxSeed},
        {<<"E", "L">> \o Run(6, d) \o <<"E", "L">> : d \in 1..MaxSeed},
        {<<"2">> \o Run(9, d) : d \in 1..MaxSeed},
        {Run(9, d) : d \in 1..MaxSeed},
        {Run(6, d) : d \in 1..MaxSeed} }

CanonicalNumbers == {r \o <<"-", "1">> : r \in CanonicalRoots}

\* the canonical order numbers written in any letter case
CanonicalTexts == UNION {CaseVariants(n) : n \in CanonicalNumbers}

OrderHash == <<"O", "r", "d", "e", "r", " ", "#">>

\* an unrelated bare 6-digit sequence, with or without a -digit suffix
BareSix == {<<"6", "5", "4", "3", "2", "1">>,
            <<"6", "5", "4", "3", "2", "1", "-", "2">>}

Separators == {<<" ">>, <<"\n">>}

\* a labeled order number and a bare 6-digit sequence, in either order
LabeledThenBare(n, sep, b) == OrderHash \o n \o sep \o b
BareThenLabeled(n, sep, b) == b \o sep \o OrderHash \o n

PairTexts ==
    {LabeledThenBare(n, sep, b) : n \in CanonicalNumbers, sep \in Separators, b \in BareSix}
    \cup
    {BareThenLabeled(n, sep, b) : n \in CanonicalNumbers, sep \in Separators, b \in BareSix}

\* noisy texts: what precedes the number, its letters (before and after the
\* digits), its digits, its suffix, and what follows it
Noisy(lead, ls, n, d, suf, trail) == lead \o ls[1] \o Run(n, d) \o ls[2] \o suf \o trail

OrderNumberColon ==
    <<"O", "r", "d", "e", "r", " ", "N", "u", "m", "b", "e", "r", ":", " ">>

Leads == {OrderHash, OrderNumberColon, <<"#">>, <<"x">>, <<"R", "e", "f", " ">>}

Letters ==
    { <<<<>>, <<>>>>,
      <<<<"r">>, <<>>>>, <<<<"a", "l">>, <<>>>>,
      <<<<"E", "J", "R">>, <<>>>>, <<<<"e", "j", "c">>, <<>>>>,
      <<<<"m", "h">>, <<>>>>, <<<<"X", "Y">>, <<>>>>,
      <<<<"E", "L">>, <<"E", "L">>>>, <<<<"e", "l">>, <<"e", "l">>>>,
      <<<<"E", "L">>, <<>>>>, <<<<>>, <<"E", "L">>>> }

FewLetters ==
    { <<<<>>, <<>>>>, <<<<"r">>, <<>>>>, <<<<"E", "J", "R">>, <<>>>>,
      <<<<"e", "l">>, <<"e", "l">>>> }

RunLengths == {4, 5, 6, 9, 10}

Dashes == {"-", EmDash, EnDash}

NoisySuffixes ==
    { <<>>, <<"-">>, <<" ", "1">>, <<"-", "1", "2">>, <<"-", "1", "-", "3">>,
      <<"-", "1", "a">> }
    \cup {Gap(g) \o <<dash>> \o Gap(g) \o <<"1">> : g \in 0..MaxGap, dash \in Dashes}

FewSuffixes == { <<>>, <<"-", "1">>, <<" ", "-", " ", "1">>, <<" ", "1">>, <<"-", "1", "2">> }

Trail == <<" ", "6", "5", "4", "3", "2", "1", "-", "2">>

NoisyTexts ==
    UNION {
        \* the number alone, in every shape
        {Noisy(<<>>, ls, n, d, suf, <<>>) :
            ls \in Letters, n \in RunLengths, d \in 1..MaxSeed, suf \in NoisySuffixes},
        \* after a label or other text
        {Noisy(lead, ls, n, 1, suf, <<>>) :
            lead \in Leads, ls \in FewLetters, n \in {4, 6, 9}, suf \in FewSuffixes},
        \* followed by a second, valid candidate
        {Noisy(lead, ls, n, 1, suf, Trail) :
            lead \in {<<>>, OrderHash}, ls \in FewLetters, n \in {4, 6, 9},
            suf \in FewSuffixes} }

\* the texts extractOrderNumber is applied to
OrderTexts == CanonicalTexts \cup PairTexts \cup NoisyTexts

\* the texts extractTrackingNumber is applied to: a first group, then the
\* digits Run(n, d) cut into groups of the lengths `shape`, the groups `gap`
\* apart
RECURSIVE Grouped(_, _, _)
Grouped(digits, shape, gap) ==
    IF shape = <<>> THEN <<>>
    ELSE gap \o SubSeq(digits, 1, Head(shape))
             \o Grouped(SubSeq(digits, Head(shape) + 1, Len(digits)), Tail(shape), gap)

RECURSIVE Sum(_)
Sum(shape) == IF shape = <<>> THEN 0 ELSE Head(shape) + Sum(Tail(shape))

GroupShapes == { <<4, 4, 4, 4, 2>>, <<4, 4, 4, 4>>, <<4, 4, 4, 4, 3>>, <<4, 4, 4, 2>> }

FirstGroups == { <<"9", "2", "0", "5">>, <<"9", "2", "0", "4">> }

TrackingLeads ==
    { <<>>, <<"U", "S", "P", "S", " ", "T", "R", "A", "C", "K", "I", "N", "G", " ", "#", " ">> }

TrackingTexts ==
    { <<>> } \cup
    {lead \o first \o Grouped(Run(Sum(shape), d), shape, Gap(g)) :
        lead \in TrackingLeads, first \in FirstGroups, shape \in GroupShapes,
        d \in 1..MaxSeed, g \in 0..MaxGap}

directoryPath == <<"d">>

\* path.join(directoryPath, file)
join(dir, file) == dir \o <<"/">> \o file

LabelPdf == <<"l", "a", "b", "e", "l", ".", "p", "d", "f">>

FileNames ==
    {LabelPdf, Run(20, 1)} \cup
    {Run(n, 1) \o ext : n \in {19, 20, 22, 23}, ext \in {DotPdf, <<".", "P", "D", "F">>}}
    \cup
    {join(directoryPath, Run(n, 1) \o DotPdf) : n \in {19, 20, 22, 23}}

----------------------------------------------------------------------------
(* State                                                                   *)

VARIABLES
    pc,                \* where the running function stands
    text,              \* the OCR text (text of extractOrderNumber, pdfText of
                       \* extractTrackingNumber)
    normalizedText,    \* extractOrderNumber: the text with its dashes normalized
    patIdx,            \* extractOrderNumber: the index of the pattern of the loop
    foundOrderNumber,  \* extractOrderNumber: the cleaned capture of the last match
    orderNumber,       \* what extractOrderNumber returned
    diagnostics,       \* what extractOrderNumber logged on failure
    fileName,          \* the path of the file (fileName of extractTrackingNumber)
    trackingNumber,    \* what extractTrackingNumber returned
    trackingLog,       \* what extractTrackingNumber logged last
    entries,           \* what the directory holds
    files,             \* processDirectory: the PDF files to process
    fileIdx,           \* processDirectory: how many files the loop has taken
    result,            \* processDirectory: what processPDFFile returned
    results,           \* processDirectory: the results pushed
    summaries,         \* the summaries logged, each the list of results it got
    calls              \* the calls of processOrder: <<orderNumber, trackingNumber>>

orderVars == <<text, normalizedText, patIdx, foundOrderNumber, orderNumber, diagnostics>>
trackingVars == <<fileName, trackingNumber, trackingLog>>
batchVars == <<entries, files, fileIdx, result, results, summaries, calls>>
vars == <<pc, orderVars, trackingVars, batchVars>>

NoDiagnostics == [text |-> <<>>, attempted |-> <<>>]

NoResult ==
    [fileName |-> <<>>, success |-> FALSE, message |-> "",
     orderNumber |-> null, trackingNumber |-> null]

\* the locals of a function that has not run
IdleOrder ==
    /\ normalizedText = <<>> /\ patIdx = 0 /\ foundOrderNumber = null
    /\ orderNumber = null /\ diagnostics = NoDiagnostics
IdleTracking == trackingNumber = null /\ trackingLog = ""
IdleBatch ==
    /\ entries = <<>> /\ files = <<>> /\ fileIdx = 0 /\ result = NoResult
    /\ results = <<>> /\ summaries = <<>> /\ calls = <<>>

----------------------------------------------------------------------------
(* extractOrderNumber(text), one step per statement of its loop            *)

InitOrder ==
    /\ pc = "extractOrderNumber"
    /\ text \in OrderTexts
    /\ fileName = <<>>
    /\ IdleOrder /\ IdleTracking /\ IdleBatch

\* const normalizedText = text.replace(...); the loop starts at the first pattern
Normalize ==
    /\ pc = "extractOrderNumber"
    /\ normalizedText' = NormalizeDashes(text)
    /\ patIdx' = 1
    /\ pc' = "match"
    /\ UNCHANGED <<text, foundOrderNumber, orderNumber, diagnostics, trackingVars, batchVars>>

\* const match = normalizedText.match(pattern): without a match the loop goes
\* on to the next pattern, with one the capture is cleaned up
MatchPattern ==
    /\ pc = "match"
    /\ patIdx <= Len(patterns)
    /\ LET m == Match(patterns[patIdx], normalizedText)
       IN  IF m.found
           THEN /\ foundOrderNumber' = NormalizeCase(CleanUp(Captured(m, normalizedText)))
                /\ pc' = "validate"
                /\ patIdx' = patIdx
           ELSE /\ foundOrderNumber' = foundOrderNumber
                /\ pc' = "match"
                /\ patIdx' = patIdx + 1
    /\ UNCHANGED <<text, normalizedText, orderNumber, diagnostics, trackingVars, batchVars>>

\* if (isValidFormat) return foundOrderNumber
ValidFormat ==
    /\ pc = "validate"
    /\ isValidFormat(foundOrderNumber)
    /\ orderNumber' = foundOrderNumber
    /\ pc' = "returned"
    /\ UNCHANGED <<text, normalizedText, patIdx, foundOrderNumber, diagnostics,
                   trackingVars, batchVars>>

\* an invalid capture ending the search
InvalidFormatStops ==
    /\ pc = "validate"
    /\ ~isValidFormat(foundOrderNumber)
    /\ orderNumber' = null
    /\ pc' = "returned"
    /\ UNCHANGED <<text, normalizedText, patIdx, foundOrderNumber, diagnostics,
                   trackingVars, batchVars>>

\* else continue: try the next pattern
InvalidFormat ==
    /\ pc = "validate"
    /\ ~isValidFormat(foundOrderNumber)
    /\ patIdx' = patIdx + 1
    /\ pc' = "match"
    /\ UNCHANGED <<text, normalizedText, foundOrderNumber, orderNumber, diagnostics,
                   trackingVars, batchVars>>

\* the loop is over: log the text and the patterns, return null
NotFound ==
    /\ pc = "match"
    /\ patIdx > Len(patterns)
    /\ diagnostics' = [text |-> normalizedText,
                       attempted |-> [k \in DOMAIN patterns |-> k]]
    /\ orderNumber' = null
    /\ pc' = "returned"
    /\ UNCHANGED <<text, normalizedText, patIdx, foundOrderNumber, trackingVars, batchVars>>

NextOrder == Normalize \/ MatchPattern \/ ValidFormat \/ InvalidFormat \/ NotFound

SpecOrder == InitOrder /\ [][NextOrder]_vars

----------------------------------------------------------------------------
(* Properties of extractOrderNumber                                        *)

IsDigits(s) == \A k \in DOMAIN s : s[k] \in Digit

\* one or more -digit segments
IsSuffixChain(s) ==
    /\ Len(s) >= 2
    /\ Len(s) % 2 = 0
    /\ \A k \in DOMAIN s : IF k % 2 = 1 THEN s[k] = "-" ELSE s[k] \in Digit

\* a root of one of the six families, its letters in any case
IsRoot(r) ==
    \/ IsDigits(r) /\ Len(r) \in {6, 9}
    \/ IsDigits(r) /\ Len(r) = 10 /\ r[1] = "2"
    \/ \E q \in Range(shortPrefixes) :
          /\ Len(r) = Len(q) + 4
          /\ toUpperCase(SubSeq(r, 1, Len(q))) = q
          /\ IsDigits(slice(r, Len(q)))
    \/ \E q \in Range(longPrefixes) :
          /\ Len(r) = Len(q) + 6
          /\ toUpperCase(SubSeq(r, 1, Len(q))) = q
          /\ IsDigits(slice(r, Len(q)))
    \/ /\ Len(r) = 10
       /\ toUpperCase(SubSeq(r, 1, 2)) = <<"E", "L">>
       /\ IsDigits(SubSeq(r, 3, 8))
       /\ toUpperCase(SubSeq(r, 9, 10)) = <<"E", "L">>

HasOrderNumberShape(s) ==
    \E n \in 1..Len(s) : IsRoot(SubSeq(s, 1, n)) /\ IsSuffixChain(slice(s, n))

C2_CanonicalRoundTrip ==
    pc = "returned" /\ text \in CanonicalTexts => orderNumber = toUpperCase(text)

\* el123456el-1 -> EL123456EL-1
C2_Witness ==
    /\ pc = "returned"
    /\ text = <<"e", "l">> \o Run(6, 1) \o <<"e", "l", "-", "1">>
    /\ orderNumber = <<"E", "L">> \o Run(6, 1) \o <<"E", "L", "-", "1">>

\* the stated precedence for the labeled numbers ns
LabeledWins(ns) ==
    \A n \in ns, sep \in Separators, b \in BareSix :
        /\ pc = "returned"
        /\ text \in {LabeledThenBare(n, sep, b), BareThenLabeled(n, sep, b)}
        => orderNumber = n

SixDigitNumbers == {Run(6, d) \o <<"-", "1">> : d \in 1..MaxSeed}

C8_NormalizeDashes ==
    pc # "extractOrderNumber" =>
        /\ Len(normalizedText) = Len(text)
        /\ \A k \in DOMAIN text :
              normalizedText[k] = IF text[k] \in {EmDash, EnDash} THEN "-" ELSE text[k]
        /\ NormalizeDashes(normalizedText) = normalizedText

\* a text with an en dash has been normalized
C8_Witness ==
    /\ pc = "match"
    /\ \E k \in DOMAIN text : text[k] = EnDash /\ normalizedText[k] = "-"

\* the patterns whose leftmost match on the normalized text cleans to a
\* valid order number
ValidatingPatterns(nt) == {k \in DOMAIN patterns : TryPattern(k, nt).valid}

\* C9: the result is the cleaned capture of the lowest-index pattern whose
\* leftmost match validates, and the loop stands at that pattern; it is null,
\* with the normalized text and every pattern logged, exactly when no
\* pattern's leftmost match validates.
C9_FirstValidatedPattern ==
    pc = "returned" =>
        LET V == ValidatingPatterns(normalizedText)
        IN  IF V = {}
            THEN /\ orderNumber = null
                 /\ diagnostics = [text |-> normalizedText,
                                   attempted |-> [k \in DOMAIN patterns |-> k]]
            ELSE LET first == CHOOSE k \in V : \A j \in V : k <= j
                 IN  /\ orderNumber = TryPattern(first, normalizedText).foundOrderNumber
                     /\ orderNumber # null
                     /\ patIdx = first
                     /\ diagnostics = NoDiagnostics

\* "ejc123456-12": the long prefix pattern matches ejc123456, which is invalid;
\* the standalone pattern, seven patterns later, gives EJC123456-1
C9_Witness ==
    /\ pc = "returned"
    /\ text = <<"e", "j", "c">> \o Run(6, 1) \o <<"-", "1", "2">>
    /\ patIdx = 12
    /\ orderNumber = <<"E", "J", "C">> \o Run(6, 1) \o <<"-", "1">>

LowerSet == Range(LowerLetters)

\* C10: a non-null result holds no white space, no em dash or en dash and no
\* lower case letter, and is, up to letter case, a piece of the normalized
\* text with its white space removed.
C10_CanonicalForm ==
    orderNumber # null =>
        /\ \A k \in DOMAIN orderNumber :
              orderNumber[k] \notin Space \cup {EmDash, EnDash} \cup LowerSet
        /\ includes(toUpperCase(RemoveSpaces(normalizedText)), orderNumber)

\* "Order #r1234 - 1" -> R1234-1
C10_Witness ==
    /\ pc = "returned"
    /\ text = OrderHash \o <<"r">> \o Run(4, 1) \o <<" ", "-", " ", "1">>
    /\ orderNumber = <<"R">> \o Run(4, 1) \o <<"-", "1">>

----------------------------------------------------------------------------
(* extractTrackingNumber(fileName, pdfText)                                *)

InitTracking ==
    /\ pc = "extractTrackingNumber"
    /\ fileName \in FileNames
    /\ text \in TrackingTexts
    /\ IdleOrder /\ IdleTracking /\ IdleBatch

\* the pattern matches the text: return the match without its white space
FoundInText ==
    /\ pc = "extractTrackingNumber"
    /\ TrackingInText(text) # null
    /\ trackingNumber' = TrackingInText(text)
    /\ trackingLog' = "Found tracking number in PDF"
    /\ pc' = "returned"
    /\ UNCHANGED <<orderVars, fileName, batchVars>>

\* no match: fall back to the file name
NotInText ==
    /\ pc = "extractTrackingNumber"
    /\ TrackingInText(text) = null
    /\ pc' = "fallback"
    /\ UNCHANGED <<orderVars, trackingVars, batchVars>>

FoundInFileName ==
    /\ pc = "fallback"
    /\ TrackingInFileName(fileName) # null
    /\ trackingNumber' = TrackingInFileName(fileName)
    /\ trackingLog' = "Found tracking number in filename"
    /\ pc' = "returned"
    /\ UNCHANGED <<orderVars, fileName, batchVars>>

TrackingNotFound ==
    /\ pc = "fallback"
    /\ TrackingInFileName(fileName) = null
    /\ trackingNumber' = null
    /\ trackingLog' = "No valid tracking number found in PDF or filename"
    /\ pc' = "returned"
    /\ UNCHANGED <<orderVars, fileName, batchVars>>

NextTracking == FoundInText \/ NotInText \/ FoundInFileName \/ TrackingNotFound

SpecTracking == InitTracking /\ [][NextTracking]_vars

----------------------------------------------------------------------------
(* Properties of extractTrackingNumber                                     *)

\* how many of the characters i..k of s are digits
DigitsIn(s, i, k) == Cardinality({m \in i..k : s[m] \in Digit})

\* the characters i..j of s are 9205 and eighteen more digits, with white
\* space only after the 4th, 8th, 12th, 16th and 20th digit, and no word
\* character before or after
IsCarrierSpan(s, i, j) ==
    /\ i + 3 <= j
    /\ SubSeq(s, i, i + 3) = <<"9", "2", "0", "5">>
    /\ s[j] \in Digit
    /\ ~IsWordAt(s, i - 1)
    /\ ~IsWordAt(s, j + 1)
    /\ \A k \in i..j : s[k] \in Digit \cup Space
    /\ DigitsIn(s, i, j) = 22
    /\ \A k \in i..j : s[k] \in Space => DigitsIn(s, i, k) \in {4, 8, 12, 16, 20}

CarrierSpans(s) ==
    {span \in (1..Len(s)) \X (1..Len(s)) : IsCarrierSpan(s, span[1], span[2])}

\* the digits of the leftmost carrier number of the text
LeftmostCarrier(s) ==
    LET first == CHOOSE span \in CarrierSpans(s) :
                     \A other \in CarrierSpans(s) : span[1] <= other[1]
    IN  SelectSeq(SubSeq(s, first[1], first[2]), LAMBDA c : c \in Digit)

\* the file name without its directory and its .pdf extension
Stem(path) == basename(path, DotPdf)

\* C4: the result is the carrier number of the text when the text holds one,
\* whatever the file name; else the file name without .pdf when that is 20
\* to 22 digits; else null.
C4_TextThenFileName ==
    pc = "returned" =>
        IF CarrierSpans(text) # {}
        THEN trackingNumber = LeftmostCarrier(text)
        ELSE IF IsDigits(Stem(fileName)) /\ Len(Stem(fileName)) \in 20..22
             THEN trackingNumber = Stem(fileName)
             ELSE trackingNumber = null

\* the text holds a carrier number and the file is named by 20 other digits
C4_Witness ==
    /\ pc = "returned"
    /\ fileName = Run(20, 1) \o DotPdf
    /\ trackingLog = "Found tracking number in PDF"
    /\ trackingNumber # Run(20, 1)
    /\ trackingNumber # null

\* C5 as stated: a tracking number taken from the text is 9205 and four
\* groups of four digits, 20 digits in all, without white space.
C5_TwentyDigits ==
    trackingLog = "Found tracking number in PDF" =>
        /\ Len(trackingNumber) = 20
        /\ IsDigits(trackingNumber)
        /\ SubSeq(trackingNumber, 1, 4) = <<"9", "2", "0", "5">>

\* C5 amended: a tracking number taken from the text is 9205, four groups of
\* four digits and a last group of two digits, 22 digits in all, the groups
\* white space apart in the text, and is returned without white space.
C5_TwentyTwoDigits ==
    trackingLog = "Found tracking number in PDF" =>
        /\ Len(trackingNumber) = 22
        /\ IsDigits(trackingNumber)
        /\ SubSeq(trackingNumber, 1, 4) = <<"9", "2", "0", "5">>
        /\ \E span \in CarrierSpans(text) :
              RemoveSpaces(SubSeq(text, span[1], span[2])) = trackingNumber

\* a number with white space between its groups was taken from the text
C5_Witness ==
    /\ pc = "returned"
    /\ trackingLog = "Found tracking number in PDF"
    /\ \E k \in DOMAIN text : text[k] \in Space /\ k > 4 /\ text[k - 1] = "5"
    /\ Len(trackingNumber) = 22

----------------------------------------------------------------------------
(* processDirectory and processPDFFile, one step per await                 *)

\* what a directory may hold
DirEntries ==
    { LabelPdf, Run(20, 1) \o DotPdf,
      <<"S", "C", "A", "N", ".", "P", "D", "F">>,
      <<"n", "o", "t", "e", "s", ".", "t", "x", "t">> }

RECURSIVE SeqsUpTo(_, _)
\* the sequences of at most n elements of set
SeqsUpTo(set, n) ==
    IF n = 0 THEN {<<>>}
    ELSE SeqsUpTo(set, n - 1) \cup
         {Append(q, e) : q \in {r \in SeqsUpTo(set, n - 1) : Len(r) = n - 1}, e \in set}

TrackingLine ==
    <<"9", "2", "0", "5", " ", "1", "2", "3", "4", " ", "5", "6", "7", "8", " ",
      "9", "0", "1", "2", " ", "3", "4", "5", "6", " ", "7", "8">>

\* what the OCR may read from a file
OcrTexts ==
    { <<>>,
      OrderHash \o <<"R", "3", "8", "1", "7", "-", "1">>,
      OrderHash \o <<"R", "3", "8", "1", "7", "-", "1", "\n">> \o TrackingLine }

\* the messages of the errors extractTextFromPDF may throw
OcrErrors == {"Command failed: pdftoppm"}

\* what processOrder may return: it catches its own errors
ProcessOrderResults ==
    { [success |-> TRUE, message |-> "Order processed successfully"],
      [success |-> FALSE, message |-> "Order not found"] }

\* fs.readdirSync(directoryPath).filter(...).map(...)
PdfFiles(dir) ==
    LET pdfs == SelectSeq(dir, LAMBDA file : endsWith(toLowerCase(file), DotPdf))
    IN  [k \in DOMAIN pdfs |-> join(directoryPath, pdfs[k])]

Init ==
    /\ pc = "processDirectory"
    /\ entries \in SeqsUpTo(DirEntries, MaxFiles)
    /\ text = null /\ fileName = <<>>
    /\ files = <<>> /\ fileIdx = 0 /\ result = NoResult
    /\ results = <<>> /\ summaries = <<>> /\ calls = <<>>
    /\ IdleOrder /\ IdleTracking

ReadDirectory ==
    /\ pc = "processDirectory"
    /\ files' = PdfFiles(entries)
    /\ results' = <<>>
    /\ pc' = "loop"
    /\ UNCHANGED <<orderVars, trackingVars, entries, fileIdx, result, summaries, calls>>

\* readdirSync throws: the catch of processDirectory logs the error
ReadDirectoryThrows ==
    /\ pc = "processDirectory"
    /\ pc' = "failed"
    /\ UNCHANGED <<orderVars, trackingVars, batchVars>>

\* the loop takes the next file: processPDFFile(file) awaits the OCR
StartFile ==
    /\ pc = "loop"
    /\ fileIdx < Len(files)
    /\ fileIdx' = fileIdx + 1
    /\ fileName' = files[fileIdx + 1]
    /\ text' = null /\ orderNumber' = null /\ trackingNumber' = null
    /\ pc' = "ocr"
    /\ UNCHANGED <<normalizedText, patIdx, foundOrderNumber, diagnostics, trackingLog,
                   entries, files, result, results, summaries, calls>>

\* an exception escaping processPDFFile: the catch of processDirectory ends
\* the batch
OcrThrowsEndsBatch ==
    /\ pc = "ocr"
    /\ pc' = "failed"
    /\ UNCHANGED <<orderVars, trackingVars, batchVars>>

\* extractTextFromPDF throws: the catch of processPDFFile returns a failure
OcrThrows ==
    /\ pc = "ocr"
    /\ \E e \in OcrErrors :
          result' = [fileName |-> basename(fileName, <<>>), success |-> FALSE,
                     message |-> e, orderNumber |-> null, trackingNumber |-> null]
    /\ pc' = "push"
    /\ UNCHANGED <<orderVars, trackingVars, entries, files, fileIdx, results,
                   summaries, calls>>

\* extractTextFromPDF returns the text it read
OcrReturns ==
    /\ pc = "ocr"
    /\ \E t \in OcrTexts : text' = t
    /\ pc' = "extractOrderNumber"
    /\ UNCHANGED <<normalizedText, patIdx, foundOrderNumber, orderNumber, diagnostics,
                   fileName, trackingVars, entries, files, fileIdx, result, results,
                   summaries, calls>>

\* const orderNumber = extractOrderNumber(text); without one the function
\* throws, and its catch returns a failure
ExtractOrderNumber ==
    /\ pc = "extractOrderNumber"
    /\ LET found == extractOrderNumber(text)
       IN  /\ orderNumber' = found
           /\ IF found = null
              THEN /\ diagnostics' = [text |-> NormalizeDashes(text),
                                      attempted |-> [k \in DOMAIN patterns |-> k]]
                   /\ result' = [fileName |-> basename(fileName, <<>>),
                                 success |-> FALSE,
                                 message |-> "Order number not found in PDF",
                                 orderNumber |-> null, trackingNumber |-> null]
                   /\ pc' = "push"
              ELSE /\ pc' = "extractTrackingNumber"
                   /\ UNCHANGED <<diagnostics, result>>
    /\ UNCHANGED <<text, normalizedText, patIdx, foundOrderNumber, fileName,
                   trackingVars, entries, files, fileIdx, results, summaries, calls>>

\* a missing tracking number not stopping the call of processOrder
ExtractTrackingNumberCallsAnyway ==
    /\ pc = "extractTrackingNumber"
    /\ LET found == extractTrackingNumber(fileName, text)
       IN  /\ trackingNumber' = found
           /\ calls' = Append(calls, <<orderNumber, found>>)
           /\ pc' = "processOrder"
    /\ UNCHANGED <<orderVars, fileName, trackingLog, entries, files, fileIdx, result,
                   results, summaries>>

\* const trackingNumber = extractTrackingNumber(filePath, text); without one
\* the function throws, and its catch returns a failure; with one,
\* processOrder is called
ExtractTrackingNumber ==
    /\ pc = "extractTrackingNumber"
    /\ LET found == extractTrackingNumber(fileName, text)
       IN  /\ trackingNumber' = found
           /\ IF found = null
              THEN /\ trackingLog' = "No valid tracking number found in PDF or filename"
                   /\ result' = [fileName |-> basename(fileName, <<>>),
                                 success |-> FALSE,
                                 message |-> "Tracking number not found",
                                 orderNumber |-> null, trackingNumber |-> null]
                   /\ pc' = "push"
                   /\ UNCHANGED calls
              ELSE /\ trackingLog' = IF TrackingInText(text) # null
                                     THEN "Found tracking number in PDF"
                                     ELSE "Found tracking number in filename"
                   /\ calls' = Append(calls, <<orderNumber, found>>)
                   /\ pc' = "processOrder"
                   /\ UNCHANGED result
    /\ UNCHANGED <<orderVars, fileName, entries, files, fileIdx, results, summaries>>

\* processOrder returns: its outcome is the outcome of the file
ProcessOrderReturns ==
    /\ pc = "processOrder"
    /\ \E r \in ProcessOrderResults :
          result' = [fileName |-> basename(fileName, <<>>), success |-> r.success,
                     message |-> r.message,
                     orderNumber |-> orderNumber, trackingNumber |-> trackingNumber]
    /\ pc' = "push"
    /\ UNCHANGED <<orderVars, trackingVars, entries, files, fileIdx, results,
                   summaries, calls>>

\* results.push(result)
PushResult ==
    /\ pc = "push"
    /\ results' = Append(results, result)
    /\ pc' = "loop"
    /\ UNCHANGED <<orderVars, trackingVars, entries, files, fileIdx, result,
                   summaries, calls>>

\* logger.summary(results), after the loop
Summary ==
    /\ pc = "loop"
    /\ fileIdx = Len(files)
    /\ summaries' = Append(summaries, results)
    /\ pc' = "done"
    /\ UNCHANGED <<orderVars, trackingVars, entries, files, fileIdx, result, results, calls>>

Next ==
    \/ ReadDirectory \/ ReadDirectoryThrows \/ StartFile
    \/ OcrThrows \/ OcrReturns \/ ExtractOrderNumber \/ ExtractTrackingNumber
    \/ ProcessOrderReturns \/ PushResult \/ Summary

Spec == Init /\ [][Next]_vars

----------------------------------------------------------------------------
(* Properties of the batch                                                 *)

IsTrackingNumber(s) == IsDigits(s) /\ Len(s) \in 20..22

\* the results that carry both identifiers
WithBoth(rs) == SelectSeq(rs, LAMBDA r : r.orderNumber # null /\ r.trackingNumber # null)

\* C6: processOrder is called only with the two identifiers the extractors
\* returned for the file, both non-null and validated; a file that lacks one
\* gets no call and a failure whose message names the missing identifier.
C6_ProcessOrderOnlyWithBoth ==
    /\ \A k \in DOMAIN calls :
          HasOrderNumberShape(calls[k][1]) /\ IsTrackingNumber(calls[k][2])
    /\ pc = "processOrder" =>
          /\ orderNumber = extractOrderNumber(text) /\ orderNumber # null
          /\ trackingNumber = extractTrackingNumber(fileName, text)
          /\ trackingNumber # null
          /\ calls[Len(calls)] = <<orderNumber, trackingNumber>>
    /\ pc = "push" /\ text # null =>
          /\ extractOrderNumber(text) = null =>
                /\ ~result.success
                /\ result.message = "Order number not found in PDF"
                /\ result.orderNumber = null
          /\ extractOrderNumber(text) # null
             /\ extractTrackingNumber(fileName, text) = null =>
                /\ ~result.success
                /\ result.message = "Tracking number not found"
                /\ result.orderNumber = null
    /\ Len(calls) = Len(WithBoth(results))
                    + (IF pc = "processOrder"
                          \/ (pc = "push" /\ result.orderNumber # null) THEN 1 ELSE 0)

\* label.pdf holds an order number and no tracking number: a failure, no call
C6_Witness ==
    /\ pc = "push"
    /\ fileName = join(directoryPath, LabelPdf)
    /\ text = OrderHash \o <<"R", "3", "8", "1", "7", "-", "1">>
    /\ result.message = "Tracking number not found"
    /\ calls = <<>>

\* C7: whatever happens to a file, the loop goes on: the results are those
\* of the PDF files of the directory taken so far, one per file and in
\* order, a failure being a result without success; only a directory that
\* cannot be listed ends the run early; and the one summary is logged after
\* the last file, with every result.
C7_BatchContinues ==
    /\ pc # "processDirectory" /\ pc # "failed" => files = PdfFiles(entries)
    /\ pc = "failed" => fileIdx = 0 /\ results = <<>>
    /\ Len(results) = fileIdx - (IF pc \in {"ocr", "extractOrderNumber", "extractTrackingNumber",
                                            "processOrder", "push"}
                                 THEN 1 ELSE 0)
    /\ \A k \in DOMAIN results :
          /\ results[k].fileName = basename(files[k], <<>>)
          /\ results[k].success => results[k].message = "Order processed successfully"
    /\ pc = "ocr" => ENABLED (OcrThrows \/ OcrReturns)
    /\ pc = "processOrder" => ENABLED ProcessOrderReturns
    /\ pc = "push" => ENABLED PushResult
    /\ pc = "loop" => ENABLED (StartFile \/ Summary)
    /\ summaries # <<>> => pc = "done"
    /\ pc = "done" =>
          /\ Len(results) = Len(files)
          /\ summaries = <<results>>

\* two files, the first failed in the OCR, and the summary holds both results
C7_Witness ==
    /\ pc = "done"
    /\ Len(results) = 2
    /\ results[1].message \in OcrErrors
    /\ results[2].success
    /\ summaries = <<results>>

====
